---- MODULE Spec2Model ----
(***************************************************************************)
(* django-velcro: the generated relationship models (models.py) and the    *)
(* add / get / remove helpers over them (utils.py).                        *)
(*                                                                         *)
(* A relationship table is a set of rows; a row is a function from the     *)
(* field names of the generated model to values.  A query is a function    *)
(* from the field names its caller writes to values, so a lookup on a name *)
(* the model does not define ends as the ORM ends it: in FieldError.       *)
(*                                                                         *)
(* There is no concurrency: a call (save, add, remove, get) runs to its    *)
(* end, `last` holds its outcome, and the next call starts once the caller *)
(* has taken it.                                                           *)
(*                                                                         *)
(* Spec is the running project of the docstrings.  Startup is the import   *)
(* of models.py and admin.py, and get_velcro_type, in a project with any   *)
(* of a bounded set of settings.                                           *)
(***************************************************************************)
EXTENDS Integers, Sequences, FiniteSets, TLC

(* ------------------------------------------------------------------ *)
(* Bounds                                                              *)
(* ------------------------------------------------------------------ *)
MaxId == 1
MaxRows == 2
MaxLimit == 1
MaxApps == 2
MaxRelationships == 2

(* ------------------------------------------------------------------ *)
(* Configuration: the example of generate_relationship_model's         *)
(* docstring, with a reflexive relationship on 'data' added.           *)
(* ------------------------------------------------------------------ *)
VELCRO_METADATA ==
    [data |-> << [app_label |-> "data", model |-> "Data"],
                 [app_label |-> "data", model |-> "DataSet"] >>,
     publication |-> << [app_label |-> "publication", model |-> "Publication"] >>]

VELCRO_RELATIONSHIPS == << <<"data", "publication">>, <<"data", "data">> >>

VelcroTypes == DOMAIN VELCRO_METADATA

None == "None"

(* Python's order on the strings the code sorts: velcro type names.    *)
TypeRank(t) == CASE t = "data" -> 1 [] t = "publication" -> 2

(* str.capitalize() *)
Capitalize(t) == CASE t = "data" -> "Data" [] t = "publication" -> "Publication"

Range(s) == {s[i] : i \in DOMAIN s}

(* sorted() with an integer key, on a sequence of <<key, item>> pairs: *)
(* Python's sort is stable, and so is this insertion sort.             *)
RECURSIVE InsertSorted(_, _)
InsertSorted(s, x) ==
    IF s = <<>> THEN <<x>>
    ELSE IF x[1] < Head(s)[1] THEN <<x>> \o s
    ELSE <<Head(s)>> \o InsertSorted(Tail(s), x)

RECURSIVE SortedKeyed(_)
SortedKeyed(s) ==
    IF s = <<>> THEN <<>>
    ELSE InsertSorted(SortedKeyed(SubSeq(s, 1, Len(s) - 1)), s[Len(s)])

Items(s) == [i \in DOMAIN s |-> s[i][2]]

SortedTypes(s) == Items(SortedKeyed([i \in DOMAIN s |-> <<TypeRank(s[i]), s[i]>>]))

(* sorted() of a pair of velcro types *)
SortedPair(r) == IF TypeRank(r[2]) < TypeRank(r[1]) THEN <<r[2], r[1]>> ELSE r

(* ------------------------------------------------------------------ *)
(* The objects of the third-party models: (content type, id)           *)
(* ------------------------------------------------------------------ *)
ContentTypes == UNION {Range(VELCRO_METADATA[t]) : t \in VelcroTypes}

Objects == [ct : ContentTypes, id : 1..MaxId]

(* type(x).__name__.lower() as a rank: data < dataset < publication    *)
ClassRank(ct) == CASE ct.model = "Data" -> 1 [] ct.model = "DataSet" -> 2
                   [] ct.model = "Publication" -> 3

(* ContentType.name.upper() as a rank: "DATA SET" < "DATA:" < "PUBLICATION" *)
CtNameRank(ct) == CASE ct.model = "DataSet" -> 1 [] ct.model = "Data" -> 2
                    [] ct.model = "Publication" -> 3

(* the objects print as their id: x.__str__() orders as x.id           *)
SortKey(x) == ClassRank(x.ct) * (MaxId + 2) + x.id

SetToSeq(S) == CHOOSE s \in [1..Cardinality(S) -> S] : Range(s) = S

(* utils.get_all_velcro_types *)
get_all_velcro_types == SortedTypes(SetToSeq(VelcroTypes))

(* str.lower() on the app labels and class names in use; every other   *)
(* string in use is lower-case                                         *)
Lower(s) == CASE s = "Lab" -> "lab" [] s = "Data" -> "data"
              [] s = "DataSet" -> "dataset" [] s = "Publication" -> "publication"
              [] s = "Sample" -> "sample" [] OTHER -> s

(* inspect.isclass(object): a model class is (app_label, object_name), *)
(* an instance is (its class, its id)                                  *)
IsClass(object) == "id" \notin DOMAIN object

ObjectClass(object) == IF IsClass(object) THEN object ELSE object.ct

(* utils.get_velcro_type, the loops: the first velcro type, in sorted  *)
(* order, that lists a model with this app_label and this model name   *)
RECURSIVE FirstTypeListing(_, _, _, _)
FirstTypeListing(metadata, types, app_label, model) ==
    IF types = <<>> THEN None
    ELSE IF \E i \in DOMAIN metadata[Head(types)] :
              /\ metadata[Head(types)][i].app_label = app_label
              /\ metadata[Head(types)][i].model = model
         THEN Head(types)
         ELSE FirstTypeListing(metadata, Tail(types), app_label, model)

(* app_label = object_class._meta.app_label.lower();                   *)
(* model = object_class._meta.object_name                              *)
VelcroTypeOfClass(metadata, object_class) ==
    FirstTypeListing(metadata, get_all_velcro_types,
                     Lower(object_class.app_label), object_class.model)

(* utils.get_velcro_type, with the module's VELCRO_METADATA *)
get_velcro_type(object) == VelcroTypeOfClass(VELCRO_METADATA, ObjectClass(object))

(* ------------------------------------------------------------------ *)
(* models.py: the generated relationship models                        *)
(* ------------------------------------------------------------------ *)
(* a class name made of the tuple's types in the order they are given *)
klass_name_as_given(relationship) ==
    Capitalize(relationship[1]) \o Capitalize(relationship[2]) \o "Relationship"

(* generate_relationship_model: the class name of a relationship tuple *)
klass_name(relationship) ==
    LET sorted == SortedPair(relationship) IN
    Capitalize(sorted[1]) \o Capitalize(sorted[2]) \o "Relationship"

IsReflexive(relationship) == relationship[1] = relationship[2]

(* models._startup: one model per tuple of VELCRO_RELATIONSHIPS *)
Classes == {klass_name(r) : r \in Range(VELCRO_RELATIONSHIPS)}

GeneratedFrom ==
    [cls \in Classes |-> CHOOSE r \in Range(VELCRO_RELATIONSHIPS) : klass_name(r) = cls]

RelationshipOfClass(cls) == GeneratedFrom[cls]

(* the names of the endpoint fields of a generated model *)
CtFieldName(relationship, n) ==
    IF IsReflexive(relationship)
    THEN IF n = 1 THEN "content_type_1" ELSE "content_type_2"
    ELSE SortedPair(relationship)[n] \o "_content_type"

PkFieldName(relationship, n) ==
    IF IsReflexive(relationship)
    THEN IF n = 1 THEN "object_pk_1" ELSE "object_pk_2"
    ELSE SortedPair(relationship)[n] \o "_object_pk"

FieldNames ==
    [r \in Range(VELCRO_RELATIONSHIPS) |->
        [ct |-> [n \in 1..2 |-> CtFieldName(r, n)],
         pk |-> [n \in 1..2 |-> PkFieldName(r, n)]]]

CtField(relationship, n) == FieldNames[relationship].ct[n]

PkField(relationship, n) == FieldNames[relationship].pk[n]

(* the concrete fields a lookup may name *)
FieldsOfClass ==
    [cls \in Classes |->
        { CtFieldName(GeneratedFrom[cls], 1), PkFieldName(GeneratedFrom[cls], 1),
          CtFieldName(GeneratedFrom[cls], 2), PkFieldName(GeneratedFrom[cls], 2),
          "order_by", "id" }]

ModelFields(cls) == FieldsOfClass[cls]

(* ------------------------------------------------------------------ *)
(* State: the rows of every relationship table, the AutoField sequence *)
(* of every table, the outcome of the last call, the project's         *)
(* settings (django.conf.settings) and what the import of the app's    *)
(* modules has built.                                                  *)
(* ------------------------------------------------------------------ *)
VARIABLES tables, sequence, last, settings, modules

vars == <<tables, sequence, last, settings, modules>>

NoPk == 0

DB == [tables |-> tables, sequence |-> sequence]

(* a row (or an unsaved instance, with id = NoPk) of a generated model *)
MkRow(cls, o1, o2, id, order_by) ==
    LET r == RelationshipOfClass(cls) IN
       (CtField(r, 1) :> o1.ct) @@ (PkField(r, 1) :> o1.id)
    @@ (CtField(r, 2) :> o2.ct) @@ (PkField(r, 2) :> o2.id)
    @@ ("id" :> id) @@ ("order_by" :> order_by)

(* GenericForeignKey: the object a row's n-th endpoint refers to *)
ContentObject(cls, row, n) ==
    LET r == RelationshipOfClass(cls) IN
    [ct |-> row[CtField(r, n)], id |-> row[PkField(r, n)]]

(* RelationshipBase.__str__, as the key its string sorts by:          *)
(* 'CT1: obj1 <-> CT2: obj2' with the objects printing as their id    *)
Str(cls, self) ==
    LET content_object_1 == ContentObject(cls, self, 1)
        content_object_2 == ContentObject(cls, self, 2)
    IN << CtNameRank(content_object_1.ct), content_object_1.id,
          CtNameRank(content_object_2.ct), content_object_2.id >>

(* What a call gives: the database after it, the exception it raised   *)
(* (None when it returned) and the value it returned.  A value that    *)
(* several later steps read is handed on as an argument, as the code   *)
(* hands a local variable on.                                          *)
Returned(db, value) == [db |-> db, exc |-> None, value |-> value]

Raised(db, exc) == [db |-> db, exc |-> exc, value |-> None]

(* ---- the ORM calls the code makes ---- *)
Matches(row, q) == \A k \in DOMAIN q : row[k] = q[k]

(* objects.filter(Q | Q ...): qs is the set of the alternatives; a    *)
(* keyword that is no field of the model raises FieldError            *)
Filter(db, cls, qs) ==
    IF \E q \in qs : ~(DOMAIN q \subseteq ModelFields(cls))
    THEN Raised(db, "FieldError")
    ELSE Returned(db, {row \in db.tables[cls] : \E q \in qs : Matches(row, q)})

(* objects.get(...): the one row of the filtered set *)
GetOne(db, found) ==
    IF found.exc # None THEN found
    ELSE IF found.value = {} THEN Raised(db, "DoesNotExist")
    ELSE IF Cardinality(found.value) > 1 THEN Raised(db, "MultipleObjectsReturned")
    ELSE Returned(db, CHOOSE row \in found.value : TRUE)

Get(db, cls, qs) == GetOne(db, Filter(db, cls, qs))

(* models.Model.save: update the row of self.pk, or insert *)
BaseSave(db, cls, self, force_insert) ==
    IF self["id"] # NoPk /\ force_insert
          /\ \E row \in db.tables[cls] : row["id"] = self["id"]
    THEN Raised(db, "IntegrityError")
    ELSE IF self["id"] # NoPk
    THEN Returned([db EXCEPT !.tables[cls] =
                        {row \in @ : row["id"] # self["id"]} \cup {self}],
                  self)
    ELSE Returned([db EXCEPT !.tables[cls] =
                        @ \cup {[self EXCEPT !["id"] = db.sequence[cls] + 1]},
                             !.sequence[cls] = @ + 1],
                  [self EXCEPT !["id"] = db.sequence[cls] + 1])

(* save(): try: self.pk = objects.get(query).pk; except: pass;        *)
(* self.order_by = self.__str__()                                      *)
WithPkAndOrder(self, relationship, order_by) ==
    [self EXCEPT !["id"] = IF relationship.exc = None
                           THEN relationship.value["id"] ELSE @,
                 !["order_by"] = order_by]

(* _generate_relationship_model_difftype.RelationshipBase.save *)
DifftypeSaveQuery(self, object_1_velcro_type, object_2_velcro_type) ==
       (object_1_velcro_type \o "_content_type" :>
            self[object_1_velcro_type \o "_content_type"])
    @@ (object_1_velcro_type \o "_object_pk" :>
            self[object_1_velcro_type \o "_object_pk"])
    @@ (object_2_velcro_type \o "_content_type" :>
            self[object_2_velcro_type \o "_content_type"])
    @@ (object_2_velcro_type \o "_object_pk" :>
            self[object_2_velcro_type \o "_object_pk"])

SaveDifftypeOf(db, cls, self, force_insert, sorted) ==
    BaseSave(db, cls,
             WithPkAndOrder(self,
                            Get(db, cls, {DifftypeSaveQuery(self, sorted[1], sorted[2])}),
                            Str(cls, self)),
             force_insert)

SaveDifftype(db, cls, self, force_insert) ==
    SaveDifftypeOf(db, cls, self, force_insert, SortedPair(RelationshipOfClass(cls)))

(* a save() whose query lacks the alternative with the endpoints swapped *)
SametypeSaveQueryOneWay(self) ==
    { [content_type_1 |-> self["content_type_1"],
       object_pk_1 |-> self["object_pk_1"],
       content_type_2 |-> self["content_type_2"],
       object_pk_2 |-> self["object_pk_2"]] }

(* _generate_relationship_model_sametype.RelationshipBase.save *)
SametypeSaveQuery(self) ==
    { [content_type_1 |-> self["content_type_1"],
       object_pk_1 |-> self["object_pk_1"],
       content_type_2 |-> self["content_type_2"],
       object_pk_2 |-> self["object_pk_2"]],
      [content_type_1 |-> self["content_type_2"],
       object_pk_1 |-> self["object_pk_2"],
       content_type_2 |-> self["content_type_1"],
       object_pk_2 |-> self["object_pk_1"]] }

(* a save() that does not look for a record joining an object to itself *)
SaveSametypeUnguarded(db, cls, self, force_insert) ==
    BaseSave(db, cls,
             WithPkAndOrder(self, Get(db, cls, SametypeSaveQuery(self)),
                            Str(cls, self)),
             force_insert)

SaveSametype(db, cls, self, force_insert) ==
    IF self["content_type_1"] = self["content_type_2"]
          /\ self["object_pk_1"] = self["object_pk_2"]
    THEN Returned(db, None)
    ELSE BaseSave(db, cls,
                  WithPkAndOrder(self, Get(db, cls, SametypeSaveQuery(self)),
                                 Str(cls, self)),
                  force_insert)

(* the save() of the class generate_relationship_model builds *)
Save(db, cls, self, force_insert) ==
    IF IsReflexive(RelationshipOfClass(cls))
    THEN SaveSametype(db, cls, self, force_insert)
    ELSE SaveDifftype(db, cls, self, force_insert)

(* ------------------------------------------------------------------ *)
(* utils.py                                                            *)
(* ------------------------------------------------------------------ *)
(* utils.get_relationship_class: apps.get_model raises LookupError for *)
(* a name no relationship tuple generated                              *)
ClassNamed(relationship_class_name) ==
    IF relationship_class_name \in Classes THEN relationship_class_name ELSE None

get_relationship_class(object_1_velcro_type, object_2_velcro_type) ==
    ClassNamed(klass_name(<<object_1_velcro_type, object_2_velcro_type>>))

(* utils._relationship_query *)
_relationship_query(object_1, object_1_velcro_type, object_2, object_2_velcro_type) ==
       (object_1_velcro_type \o "_content_type" :> object_1.ct)
    @@ (object_1_velcro_type \o "_object_id" :> object_1.id)
    @@ (object_2_velcro_type \o "_content_type" :> object_2.ct)
    @@ (object_2_velcro_type \o "_object_id" :> object_2.id)

(* Model(params): a keyword that is no field raises TypeError;        *)
(* objects.create(params) then saves the instance with force_insert   *)
Create(db, cls, params) ==
    IF ~(DOMAIN params \subseteq ModelFields(cls))
    THEN Raised(db, "TypeError")
    ELSE Save(db, cls, params @@ ("id" :> NoPk) @@ ("order_by" :> <<>>), TRUE)

(* return relationship, created *)
WithCreated(db, made, created) ==
    IF made.exc = None THEN Returned(made.db, <<made.value, created>>)
    ELSE Raised(db, made.exc)

(* objects.get_or_create(query): only DoesNotExist leads to create *)
GetOrCreateFrom(db, cls, query, got) ==
    IF got.exc = None THEN WithCreated(db, got, FALSE)
    ELSE IF got.exc # "DoesNotExist" THEN Raised(db, got.exc)
    ELSE WithCreated(db, Create(db, cls, query), TRUE)

GetOrCreate(db, cls, query) == GetOrCreateFrom(db, cls, query, Get(db, cls, {query}))

(* objects.get(...).delete() *)
DeleteGot(db, cls, got) ==
    IF got.exc # None THEN Raised(db, got.exc)
    ELSE Returned([db EXCEPT !.tables[cls] = @ \ {got.value}], None)

GetAndDelete(db, cls, qs) == DeleteGot(db, cls, Get(db, cls, qs))

(* utils._add_or_remove_related_content_difftype *)
AddOrRemoveDifftype(db, relationship_class, query, add_or_remove) ==
    IF relationship_class = None THEN Raised(db, "LookupError")
    ELSE IF add_or_remove = "add"
    THEN GetOrCreate(db, relationship_class, query)
    ELSE GetAndDelete(db, relationship_class, {query})

_add_or_remove_related_content_difftype(db, object_1, object_2, object_1_velcro_type, object_2_velcro_type, add_or_remove) ==
    AddOrRemoveDifftype(
        db,
        get_relationship_class(object_1_velcro_type, object_2_velcro_type),
        _relationship_query(
            object_1, object_1_velcro_type, object_2, object_2_velcro_type),
        add_or_remove)

(* utils._add_or_remove_related_content_sametype *)
SametypeQuery(object_1, object_2) ==
    { [content_type_1 |-> object_1.ct, object_id_1 |-> object_1.id,
       content_type_2 |-> object_2.ct, object_id_2 |-> object_2.id],
      [content_type_1 |-> object_2.ct, object_id_1 |-> object_2.id,
       content_type_2 |-> object_1.ct, object_id_2 |-> object_1.id] }

SametypeParams(object_1, object_2) ==
    [content_type_1 |-> object_1.ct, object_id_1 |-> object_1.id,
     content_type_2 |-> object_2.ct, object_id_2 |-> object_2.id]

(* try: relationship = objects.get(query); except: objects.create(params) *)
GetElseCreate(db, cls, params, relationship) ==
    IF relationship.exc = None THEN WithCreated(db, relationship, FALSE)
    ELSE WithCreated(db, Create(db, cls, params), TRUE)

AddOrRemoveSametype(db, object_1, object_2, relationship_class, add_or_remove) ==
    IF relationship_class = None THEN Raised(db, "LookupError")
    ELSE IF add_or_remove = "add"
    THEN GetElseCreate(db, relationship_class, SametypeParams(object_1, object_2),
                       Get(db, relationship_class, SametypeQuery(object_1, object_2)))
    ELSE GetAndDelete(db, relationship_class, SametypeQuery(object_1, object_2))

(* the helper without its test of object_1 == object_2 *)
AddOrRemoveSametypeUnguarded(db, object_1, object_2, object_1_velcro_type, object_2_velcro_type, add_or_remove) ==
    AddOrRemoveSametype(
        db, object_1, object_2,
        get_relationship_class(object_1_velcro_type, object_2_velcro_type),
        add_or_remove)

_add_or_remove_related_content_sametype(db, object_1, object_2, object_1_velcro_type, object_2_velcro_type, add_or_remove) ==
    IF object_1 = object_2 THEN Raised(db, "ValueError")
    ELSE AddOrRemoveSametype(
            db, object_1, object_2,
            get_relationship_class(object_1_velcro_type, object_2_velcro_type),
            add_or_remove)

(* add_related_content / remove_related_content: the choice between   *)
(* the two helpers                                                     *)
AddOrRemove(db, object_1, object_2, object_1_velcro_type, object_2_velcro_type, add_or_remove) ==
    IF object_1_velcro_type = object_2_velcro_type
    THEN _add_or_remove_related_content_sametype(
            db, object_1, object_2, object_1_velcro_type, object_2_velcro_type,
            add_or_remove)
    ELSE _add_or_remove_related_content_difftype(
            db, object_1, object_2, object_1_velcro_type, object_2_velcro_type,
            add_or_remove)

(* utils.add_related_content *)
add_related_content(db, object_1, object_2) ==
    AddOrRemove(db, object_1, object_2,
                get_velcro_type(object_1), get_velcro_type(object_2), "add")

(* utils.remove_related_content *)
remove_related_content(db, object_1, object_2) ==
    AddOrRemove(db, object_1, object_2,
                get_velcro_type(object_1), get_velcro_type(object_2), "remove")

(* utils.is_valid_velcro_type *)
is_valid_velcro_type(velcro_type) == velcro_type \in DOMAIN VELCRO_METADATA

(* utils.get_related_types *)
RECURSIVE RelatedTypesOf(_, _)
RelatedTypesOf(relationships, velcro_type) ==
    IF relationships = <<>> THEN <<>>
    ELSE IF velcro_type \in Range(Head(relationships))
    THEN << IF Head(relationships)[1] = velcro_type
            THEN Head(relationships)[2] ELSE Head(relationships)[1] >>
         \o RelatedTypesOf(Tail(relationships), velcro_type)
    ELSE RelatedTypesOf(Tail(relationships), velcro_type)

get_related_types(velcro_type) ==
    SortedTypes(RelatedTypesOf(VELCRO_RELATIONSHIPS, velcro_type))

(* utils.validate_related_types *)
RECURSIVE ValidTypes(_, _, _)
ValidTypes(related_types, all_related_types, valid_related_types) ==
    IF related_types = <<>> THEN valid_related_types
    ELSE ValidTypes(Tail(related_types), all_related_types,
             IF ~is_valid_velcro_type(Head(related_types)) THEN valid_related_types
             ELSE IF Head(related_types) \notin Range(all_related_types)
             THEN valid_related_types
             ELSE IF Head(related_types) \in Range(valid_related_types)
             THEN valid_related_types
             ELSE Append(valid_related_types, Head(related_types)))

validate_related_types(velcro_type, related_types) ==
    ValidTypes(related_types, get_related_types(velcro_type), <<>>)

(* utils.get_or_validate_related_types *)
get_or_validate_related_types(velcro_type, related_types) ==
    IF related_types # <<>>
    THEN validate_related_types(velcro_type, related_types)
    ELSE get_related_types(velcro_type)

(* utils.plural_velcro_type: VELCRO_METADATA holds no 'options' here *)
plural_velcro_type(velcro_type) == velcro_type \o "s"

(* limit=None *)
NoLimit == -1

(* queryset[:limit] *)
Slice(s, limit) ==
    IF limit = NoLimit \/ limit >= Len(s) THEN s ELSE SubSeq(s, 1, limit)

(* Meta.ordering = ['order_by']: the rows of a queryset, in the order  *)
(* of their order_by strings                                           *)
OrderBase == MaxId + 4

OrderRank(row) ==
    ((row["order_by"][1] * OrderBase + row["order_by"][2]) * OrderBase
        + row["order_by"][3]) * OrderBase + row["order_by"][4]

KeyedByOrder(s) == [i \in DOMAIN s |-> <<OrderRank(s[i]), s[i]>>]

Ordered(rows) == Items(SortedKeyed(KeyedByOrder(SetToSeq(rows))))

(* sorted(..., key=(type name lower, str lower)) of a list of objects *)
SortedObjects(s) == Items(SortedKeyed([i \in DOMAIN s |-> <<SortKey(s[i]), s[i]>>]))

(* utils._get_related_content_difftype *)
RelatedOfRows(db, related_type, relationships) ==
    Returned(db, SortedObjects(
        [i \in DOMAIN relationships |->
            [ct |-> relationships[i][related_type \o "_content_type"],
             id |-> relationships[i][related_type \o "_object_pk"]]]))

DifftypeRelated(db, related_type, limit, found) ==
    IF found.exc # None THEN found
    ELSE RelatedOfRows(db, related_type, Slice(Ordered(found.value), limit))

_get_related_content_difftype(db, object, velcro_type, related_type, content_type, relationship_class, limit) ==
    DifftypeRelated(db, related_type, limit,
        Filter(db, relationship_class,
               { (velcro_type \o "_object_id" :> object.id)
                 @@ (velcro_type \o "_content_type" :> content_type) }))

(* utils._get_related_content_sametype: tuple.index(object) raises     *)
(* ValueError for a tuple that does not hold the object                *)
OtherEnds(db, object, relationships) ==
    IF \E i \in DOMAIN relationships : object \notin Range(relationships[i])
    THEN Raised(db, "ValueError")
    ELSE Returned(db, SortedObjects(
            [i \in DOMAIN relationships |->
                IF relationships[i][1] = object
                THEN relationships[i][2] ELSE relationships[i][1]]))

EndsOfRows(relationship_class, rows) ==
    [i \in DOMAIN rows |->
        << ContentObject(relationship_class, rows[i], 1),
           ContentObject(relationship_class, rows[i], 2) >>]

SametypeRelated(db, object, relationship_class, limit, found) ==
    IF found.exc # None THEN found
    ELSE OtherEnds(db, object,
            EndsOfRows(relationship_class, Slice(Ordered(found.value), limit)))

_get_related_content_sametype(db, object, related_type, content_type, relationship_class, limit) ==
    SametypeRelated(db, object, relationship_class, limit,
        Filter(db, relationship_class,
               { [content_type_1 |-> content_type, object_id_1 |-> object.id],
                 [content_type_2 |-> content_type, object_id_2 |-> object.id] }))

(* sorted(related_content.items(), key=lambda t: t[0].lower()): the rank *)
(* of a key of the dictionary, a velcro type or its plural              *)
KeyRank(k) == CASE k \in {"data", "datas"} -> 1
                [] k \in {"publication", "publications"} -> 2

RECURSIVE Flatten(_)
Flatten(lists) ==
    IF lists = <<>> THEN <<>> ELSE Head(lists) \o Flatten(Tail(lists))

(* utils.get_related_content, the loop body: the content of one type *)
RelatedOfType(db, object, velcro_type, rt, limit) ==
    IF velcro_type = rt
    THEN _get_related_content_sametype(
            db, object, rt, object.ct, get_relationship_class(velcro_type, rt), limit)
    ELSE _get_related_content_difftype(
            db, object, velcro_type, rt, object.ct,
            get_relationship_class(velcro_type, rt), limit)

(* related_dict, the OrderedDict as the sequence of its (key, list)    *)
(* items, and the flat list of grouped=False                           *)
RelatedDict(related_types, fetched, verbose) ==
    Items(SortedKeyed(
        [i \in DOMAIN related_types |->
            << KeyRank(IF verbose THEN plural_velcro_type(related_types[i])
                       ELSE related_types[i]),
               << IF verbose THEN plural_velcro_type(related_types[i])
                  ELSE related_types[i],
                  fetched[i].value >> >>]))

FlatList(related_dict) == Flatten([i \in DOMAIN related_dict |-> related_dict[i][2]])

RelatedContent(db, related_types, fetched, grouped, verbose) ==
    IF \E i \in DOMAIN fetched : fetched[i].exc # None
    THEN Raised(db, fetched[CHOOSE i \in DOMAIN fetched :
                        /\ fetched[i].exc # None
                        /\ \A j \in 1..(i - 1) : fetched[j].exc = None].exc)
    ELSE IF grouped THEN Returned(db, RelatedDict(related_types, fetched, verbose))
    ELSE Returned(db, FlatList(RelatedDict(related_types, fetched, verbose)))

RelatedContentOfTypes(db, object, velcro_type, related_types, grouped, limit, verbose) ==
    RelatedContent(db, related_types,
        [i \in DOMAIN related_types |->
            RelatedOfType(db, object, velcro_type, related_types[i], limit)],
        grouped, verbose)

RelatedContentAs(db, object, related_types, grouped, limit, velcro_type, verbose) ==
    RelatedContentOfTypes(db, object, velcro_type,
        get_or_validate_related_types(velcro_type, related_types),
        grouped, limit, verbose)

(* utils.get_related_content *)
get_related_content(db, object, related_types, grouped, limit, velcro_type, verbose) ==
    RelatedContentAs(db, object, related_types, grouped, limit,
        IF velcro_type = None THEN get_velcro_type(object) ELSE velcro_type,
        verbose)

(* utils.get_related_content_sametype, the inner loop: for every r of  *)
(* every list of the first result,                                     *)
(* get_related_content(r, velcro_type, velcro_type=related_type)       *)
ViaObjects(related_dict) ==
    Flatten([i \in DOMAIN related_dict |->
                [j \in DOMAIN related_dict[i][2] |->
                    <<related_dict[i][1], related_dict[i][2][j]>>]])

SecondFetches(db, velcro_type, via) ==
    [i \in DOMAIN via |->
        get_related_content(db, via[i][2], <<velcro_type>>, TRUE, NoLimit,
                            via[i][1], FALSE)]

(* second[velcro_type]: a dictionary without the key raises KeyError *)
Subscripted(db, fetched, key) ==
    IF fetched.exc # None THEN fetched
    ELSE IF \A i \in DOMAIN fetched.value : fetched.value[i][1] # key
    THEN Raised(db, "KeyError")
    ELSE Returned(db, fetched.value[CHOOSE i \in DOMAIN fetched.value :
                                        fetched.value[i][1] = key][2])

(* list(set(...)); if non-empty: .remove(object), which raises         *)
(* ValueError when the object is not in the list; sorted(...)          *)
WithoutObject(db, object, found) ==
    IF found = {} THEN Returned(db, <<>>)
    ELSE IF object \notin found THEN Raised(db, "ValueError")
    ELSE Returned(db, SortedObjects(SetToSeq(found \ {object})))

CollectSametype(db, object, extended) ==
    IF \E i \in DOMAIN extended : extended[i].exc # None
    THEN Raised(db, extended[CHOOSE i \in DOMAIN extended :
                        /\ extended[i].exc # None
                        /\ \A j \in 1..(i - 1) : extended[j].exc = None].exc)
    ELSE WithoutObject(db, object,
            UNION {Range(extended[i].value) : i \in DOMAIN extended})

SubscriptedAll(db, velcro_type, seconds) ==
    [i \in DOMAIN seconds |-> Subscripted(db, seconds[i], velcro_type)]

SametypeVia(db, object, velcro_type, first) ==
    IF first.exc # None THEN first
    ELSE CollectSametype(db, object,
            SubscriptedAll(db, velcro_type,
                SecondFetches(db, velcro_type, ViaObjects(first.value))))

SametypeOfTypes(db, object, velcro_type, related_types) ==
    SametypeVia(db, object, velcro_type,
        get_related_content(db, object, related_types, TRUE, NoLimit,
                            velcro_type, FALSE))

(* utils.get_related_content_sametype *)
get_related_content_sametype(db, object, related_types, velcro_type) ==
    SametypeOfTypes(db, object,
        IF velcro_type = None THEN get_velcro_type(object) ELSE velcro_type,
        get_or_validate_related_types(
            IF velcro_type = None THEN get_velcro_type(object) ELSE velcro_type,
            related_types))

(* ------------------------------------------------------------------ *)
(* The project: its models, its settings, its admin site               *)
(* ------------------------------------------------------------------ *)
(* the third-party models of the project: (app label, class name) *)
Models == ContentTypes \cup {[app_label |-> "Lab", model |-> "Sample"]}

(* the 'apps' lists a velcro type may have in VELCRO_METADATA *)
AppLists == {SetToSeq(S) : S \in {T \in SUBSET Models : Cardinality(T) <= MaxApps}}

(* the lists of relationship tuples VELCRO_RELATIONSHIPS may be: every *)
(* relationship is configured once, in either order of its two types   *)
RECURSIVE RelationshipLists(_)
RelationshipLists(n) ==
    IF n = 0 THEN {<<>>}
    ELSE RelationshipLists(n - 1) \cup
         UNION { { Append(rs, r) :
                     r \in { t \in VelcroTypes \X VelcroTypes :
                               \A i \in DOMAIN rs : Range(rs[i]) # Range(t) } } :
                 rs \in { x \in RelationshipLists(n - 1) : Len(x) = n - 1 } }

ProjectSettings ==
    [VELCRO_METADATA : [VelcroTypes -> AppLists],
     VELCRO_RELATIONSHIPS : RelationshipLists(MaxRelationships),
     VELCRO_INLINES : BOOLEAN,
     VELCRO_GENERICADMIN : BOOLEAN]

(* the settings of generate_relationship_model's docstring *)
DocSettings ==
    [VELCRO_METADATA |-> VELCRO_METADATA,
     VELCRO_RELATIONSHIPS |-> VELCRO_RELATIONSHIPS,
     VELCRO_INLINES |-> TRUE,
     VELCRO_GENERICADMIN |-> TRUE]

(* settings.py: the names the module defines, each read from the       *)
(* project's settings with its default                                 *)
settings_py(project) ==
    [VELCRO_INLINES |-> project.VELCRO_INLINES,
     VELCRO_INLINES_EXTRA |-> 3,
     VELCRO_INLINES_MAX_NUM |-> None,
     VELCRO_INLINES_TABULAR |-> TRUE,
     VELCRO_METADATA |-> project.VELCRO_METADATA,
     VELCRO_METHODS |-> TRUE,
     VELCRO_RELATIONSHIPS |-> project.VELCRO_RELATIONSHIPS]

(* .app_settings, the module models.py reads its two names from *)
app_settings(project) ==
    [VELCRO_METADATA |-> project.VELCRO_METADATA,
     VELCRO_RELATIONSHIPS |-> project.VELCRO_RELATIONSHIPS]

(* ------------------------------------------------------------------ *)
(* models.py at import                                                 *)
(* ------------------------------------------------------------------ *)
(* limit_choices_to: the Q of the lower-cased (app_label, model) of    *)
(* every model of the velcro type                                      *)
LimitChoices(metadata, velcro_type) ==
    { [app_label |-> Lower(metadata[velcro_type][i].app_label),
       model |-> Lower(metadata[velcro_type][i].model)] :
        i \in DOMAIN metadata[velcro_type] }

(* models._generate_relationship_model_difftype: the typedict *)
DifftypeFields(relationship) ==
    UNION { { velcro_type \o "_content_type", velcro_type \o "_object_pk",
              velcro_type \o "_content_object" } :
            velcro_type \in Range(relationship) }

(* models._generate_relationship_model_sametype: the fields of its     *)
(* RelationshipBase                                                    *)
SametypeFields ==
    { "content_type_1", "object_pk_1", "content_object_1",
      "content_type_2", "object_pk_2", "content_object_2" }

(* models.generate_relationship_model: the class it builds, and the    *)
(* module's globals with the class under its name                      *)
RelationshipModel(metadata, relationship, object_1_velcro_type, object_2_velcro_type) ==
    [name |-> klass_name(relationship),
     base |-> IF object_1_velcro_type = object_2_velcro_type
              THEN "sametype" ELSE "difftype",
     fields |-> {"order_by"} \cup
                (IF object_1_velcro_type = object_2_velcro_type
                 THEN SametypeFields ELSE DifftypeFields(relationship)),
     limit_choices_to |->
        [velcro_type \in Range(relationship) |-> LimitChoices(metadata, velcro_type)]]

WithGlobal(module_globals, klass) == (klass.name :> klass) @@ module_globals

generate_relationship_model(module_globals, metadata, relationship) ==
    WithGlobal(module_globals,
        RelationshipModel(metadata, relationship,
            SortedPair(relationship)[1], SortedPair(relationship)[2]))

(* models._startup *)
RECURSIVE GenerateAll(_, _, _)
GenerateAll(module_globals, metadata, relationships) ==
    IF relationships = <<>> THEN module_globals
    ELSE GenerateAll(
            generate_relationship_model(module_globals, metadata, Head(relationships)),
            metadata, Tail(relationships))

NoGlobals == [name \in {} |-> None]

models_startup(imported) ==
    GenerateAll(NoGlobals, imported.VELCRO_METADATA, imported.VELCRO_RELATIONSHIPS)

(* ------------------------------------------------------------------ *)
(* admin.py at import                                                  *)
(* ------------------------------------------------------------------ *)
(* the admin module while it is imported: its globals, admin.site's    *)
(* registry and the exception that ended the import (None: none)       *)
Site(module_globals, registry, exc) ==
    [globals |-> module_globals, registry |-> registry, exc |-> exc]

Failed(site, exc) == [site EXCEPT !.exc = exc]

(* the names admin.py imports from .settings *)
AdminImports ==
    { "VELCRO_GENERICADMIN", "VELCRO_INLINES", "VELCRO_INLINES_EXTRA",
      "VELCRO_INLINES_MAX_NUM", "VELCRO_INLINES_TABULAR", "VELCRO_METADATA",
      "VELCRO_RELATIONSHIPS" }

(* the model class apps.get_model('django_velcro', name) returns is    *)
(* known to the registry as (app label, class name)                    *)
VelcroModel(relationship_class_name) ==
    [app_label |-> "django_velcro", model |-> relationship_class_name]

(* admin.import_relationship_model *)
import_relationship_model(site, models_globals, relationship) ==
    IF site.exc # None THEN site
    ELSE IF klass_name(relationship) \notin DOMAIN models_globals
    THEN Failed(site, "LookupError")
    ELSE [site EXCEPT !.globals =
            WithGlobal(@, models_globals[klass_name(relationship)])]

InlineName(object_1_velcro_type, object_2_velcro_type, reverse) ==
    Capitalize(object_1_velcro_type) \o "To" \o Capitalize(object_2_velcro_type)
        \o (IF object_1_velcro_type = object_2_velcro_type /\ reverse
            THEN "RelationshipReverseInline" ELSE "RelationshipInline")

(* admin.generate_inline_model: the typedict *)
InlineClass(imported, relationship, object_1_velcro_type, object_2_velcro_type, reverse) ==
    [name |-> InlineName(object_1_velcro_type, object_2_velcro_type, reverse),
     base |-> IF imported.VELCRO_INLINES_TABULAR
              THEN "GenericTabularInline" ELSE "GenericStackedInline",
     model |-> klass_name(relationship),
     max_num |-> imported.VELCRO_INLINES_MAX_NUM,
     ct_field |->
        IF object_1_velcro_type # object_2_velcro_type
        THEN object_1_velcro_type \o "_content_type"
        ELSE IF reverse THEN "content_type_2" ELSE "content_type_1",
     ct_fk_field |->
        IF object_1_velcro_type # object_2_velcro_type
        THEN object_1_velcro_type \o "_object_id"
        ELSE IF reverse THEN "object_id_2" ELSE "object_id_1",
     extra |->
        IF object_1_velcro_type = object_2_velcro_type /\ reverse
        THEN 0 ELSE imported.VELCRO_INLINES_EXTRA,
     fields |->
        IF object_1_velcro_type # object_2_velcro_type
        THEN << object_2_velcro_type \o "_content_type",
                object_2_velcro_type \o "_object_id" >>
        ELSE IF reverse THEN <<"content_type_1", "object_id_1">>
        ELSE <<"content_type_2", "object_id_2">>,
     ordering |->
        IF object_1_velcro_type # object_2_velcro_type
        THEN << object_2_velcro_type \o "_content_type", "order_by" >>
        ELSE <<"order_by">>]

(* admin.generate_inline_model: eval of the model's name raises        *)
(* NameError when the module has no such global                        *)
generate_inline_model(site, imported, relationship, reverse) ==
    IF site.exc # None THEN site
    ELSE IF klass_name(relationship) \notin DOMAIN site.globals
    THEN Failed(site, "NameError")
    ELSE [site EXCEPT !.globals =
            WithGlobal(@,
                InlineClass(imported, relationship,
                    SortedPair(relationship)[IF reverse THEN 2 ELSE 1],
                    SortedPair(relationship)[IF reverse THEN 1 ELSE 2],
                    reverse))]

(* admin.generate_and_register_admin_model: admin.site.register raises *)
(* AlreadyRegistered for a model the registry holds                    *)
RelationshipAdmin(model_name) ==
    [name |-> model_name \o "Admin", bases |-> <<"GenericAdminModelAdmin">>,
     inlines |-> <<>>, readonly_fields |-> <<"order_by">>]

generate_and_register_admin_model(site, relationship) ==
    IF site.exc # None THEN site
    ELSE IF VelcroModel(klass_name(relationship)) \in DOMAIN site.registry
    THEN Failed([site EXCEPT !.globals =
                    WithGlobal(@, RelationshipAdmin(klass_name(relationship)))],
                "AlreadyRegistered")
    ELSE [site EXCEPT
            !.globals = WithGlobal(@, RelationshipAdmin(klass_name(relationship))),
            !.registry = (VelcroModel(klass_name(relationship))
                            :> RelationshipAdmin(klass_name(relationship))) @@ @]

(* utils.get_relationship_inlines: the names of the inline classes it  *)
(* takes from the admin module, two for the velcro type itself         *)
RECURSIVE InlineNamesOf(_, _)
InlineNamesOf(velcro_type, related_types) ==
    IF related_types = <<>> THEN <<>>
    ELSE << InlineName(velcro_type, Head(related_types), FALSE) >>
         \o (IF velcro_type = Head(related_types)
             THEN << InlineName(velcro_type, Head(related_types), TRUE) >>
             ELSE <<>>)
         \o InlineNamesOf(velcro_type, Tail(related_types))

get_relationship_inlines(imported, velcro_type) ==
    InlineNamesOf(velcro_type,
        SortedTypes(RelatedTypesOf(imported.VELCRO_RELATIONSHIPS, velcro_type)))

(* admin.add_velcro_to_third_party_admin, from the original admin      *)
(* class on: type(name, bases, dict), unregister, register             *)
UpdatedModelAdmin(imported, orig_model_admin, relationship_inlines) ==
    [name |-> orig_model_admin.name,
     bases |-> IF imported.VELCRO_GENERICADMIN
               THEN <<"GenericAdminModelAdmin", orig_model_admin.name>>
               ELSE <<orig_model_admin.name>>,
     inlines |-> IF imported.VELCRO_INLINES
                 THEN orig_model_admin.inlines \o relationship_inlines
                 ELSE orig_model_admin.inlines,
     readonly_fields |-> orig_model_admin.readonly_fields]

(* admin.add_velcro_to_third_party_admin: apps.get_model raises        *)
(* LookupError for no model, _registry[model] KeyError for a model     *)
(* that is not registered, getattr AttributeError for no inline class  *)
add_velcro_to_third_party_admin(site, imported, app_name, model_name, velcro_type) ==
    IF site.exc # None THEN site
    ELSE IF [app_label |-> app_name, model |-> model_name] \notin Models
    THEN Failed(site, "LookupError")
    ELSE IF [app_label |-> app_name, model |-> model_name] \notin DOMAIN site.registry
    THEN Failed(site, "KeyError")
    ELSE IF /\ imported.VELCRO_INLINES
            /\ ~(Range(get_relationship_inlines(imported, velcro_type))
                    \subseteq DOMAIN site.globals)
    THEN Failed(site, "AttributeError")
    ELSE [site EXCEPT !.registry[[app_label |-> app_name, model |-> model_name]] =
            UpdatedModelAdmin(imported, @,
                get_relationship_inlines(imported, velcro_type))]

(* admin._startup, the first loop *)
OfRelationship(site, imported, models_globals, r) ==
    generate_and_register_admin_model(
        IF imported.VELCRO_INLINES
        THEN generate_inline_model(
                generate_inline_model(
                    import_relationship_model(site, models_globals, r),
                    imported, r, FALSE),
                imported, r, TRUE)
        ELSE import_relationship_model(site, models_globals, r),
        r)

RECURSIVE OfRelationships(_, _, _, _)
OfRelationships(site, imported, models_globals, relationships) ==
    IF relationships = <<>> THEN site
    ELSE OfRelationships(
            OfRelationship(site, imported, models_globals, Head(relationships)),
            imported, models_globals, Tail(relationships))

(* admin._startup, the second loop; VELCRO_METADATA.items() gives the  *)
(* velcro types in the order of the dictionary                         *)
RECURSIVE OfApps(_, _, _, _)
OfApps(site, imported, velcro_type, apps) ==
    IF apps = <<>> THEN site
    ELSE OfApps(
            add_velcro_to_third_party_admin(
                site, imported, Head(apps).app_label, Head(apps).model, velcro_type),
            imported, velcro_type, Tail(apps))

RECURSIVE OfMetadata(_, _, _)
OfMetadata(site, imported, items) ==
    IF items = <<>> THEN site
    ELSE OfMetadata(
            OfApps(site, imported, Head(items), imported.VELCRO_METADATA[Head(items)]),
            imported, Tail(items))

admin_startup(site, imported, models_globals, items) ==
    OfMetadata(
        OfRelationships(site, imported, models_globals, imported.VELCRO_RELATIONSHIPS),
        imported, items)

(* the import of admin.py: 'from .settings import ...' raises          *)
(* ImportError for a name settings.py does not define, and then        *)
(* nothing of the module runs                                          *)
admin_py(registry, settings_module, models_globals, items) ==
    IF ~(AdminImports \subseteq DOMAIN settings_module)
    THEN Site(NoGlobals, registry, "ImportError")
    ELSE admin_startup(Site(NoGlobals, registry, None),
                       settings_module, models_globals, items)

(* the admin classes the project registered for its own models *)
ThirdPartyAdmin(model) ==
    [name |-> model.model \o "Admin", bases |-> <<"ModelAdmin">>,
     inlines |-> IF model.model = "Data" THEN <<"NoteInline">> ELSE <<>>,
     readonly_fields |-> <<>>]

ProjectRegistry == [model \in Models |-> ThirdPartyAdmin(model)]

(* the orders a dictionary may give its keys in *)
ItemOrders == { s \in [1..Cardinality(VelcroTypes) -> VelcroTypes] : Range(s) = VelcroTypes }

(* ------------------------------------------------------------------ *)
(* The calls                                                           *)
(* ------------------------------------------------------------------ *)
Nil == [op |-> "none"]

ObjectsOfType(t) == {o \in Objects : get_velcro_type(o) = t}

(* the instances save() is called on: new ones (id = NoPk) and stored  *)
(* rows, with their endpoints as the caller set them                   *)
InstancesOf(cls, sorted) ==
    { MkRow(cls, o1, o2, id, <<>>) :
        o1 \in ObjectsOfType(sorted[1]), o2 \in ObjectsOfType(sorted[2]),
        id \in {NoPk} \cup {row["id"] : row \in tables[cls]} }

Instances(cls) == InstancesOf(cls, SortedPair(RelationshipOfClass(cls)))

(* the rows inserted so far, over all tables *)
RECURSIVE SumSequences(_, _)
SumSequences(db, S) ==
    IF S = {} THEN 0
    ELSE db.sequence[CHOOSE c \in S : TRUE]
            + SumSequences(db, S \ {CHOOSE c \in S : TRUE})

RowsInserted(db) == SumSequences(db, Classes)

RelatedTypeArgs ==
    { <<>>, <<"publication", "scientist", "data", "data">> }

Limits == {NoLimit} \cup 0..MaxLimit

(* a call ends: the database is as the call left it, and `last` holds  *)
(* the call, its outcome and the tables it started from                *)
Finish(op, args, r) ==
    /\ RowsInserted(r.db) <= MaxRows
    /\ tables' = r.db.tables
    /\ sequence' = r.db.sequence
    /\ last' = [op |-> op, args |-> args, exc |-> r.exc, value |-> r.value,
                pre |-> tables]
    /\ UNCHANGED <<settings, modules>>

(* nothing of the app imported yet *)
NotImported ==
    [models |-> [imported |-> FALSE, globals |-> NoGlobals],
     admin |-> [state |-> "unimported", globals |-> NoGlobals],
     registry |-> ProjectRegistry]

AfterModels(m, module_globals) ==
    [m EXCEPT !.models = [imported |-> TRUE, globals |-> module_globals]]

AfterAdmin(m, site) ==
    [m EXCEPT !.admin = [state |-> IF site.exc = None THEN "imported" ELSE site.exc,
                         globals |-> site.globals],
              !.registry = site.registry]

(* the project of the docstrings, its models imported, its tables empty *)
Init ==
    /\ tables = [cls \in Classes |-> {}]
    /\ sequence = [cls \in Classes |-> 0]
    /\ last = Nil
    /\ settings = DocSettings
    /\ modules = AfterModels(NotImported, models_startup(app_settings(DocSettings)))

(* instance.save() on an instance of a relationship model *)
SaveCall ==
    /\ last = Nil
    /\ \E cls \in Classes : \E self \in Instances(cls) :
         Finish("save", <<cls, self>>, Save(DB, cls, self, FALSE))

AddCall ==
    /\ last = Nil
    /\ \E object_1, object_2 \in Objects :
         Finish("add", <<object_1, object_2>>,
                add_related_content(DB, object_1, object_2))

RemoveCall ==
    /\ last = Nil
    /\ \E object_1, object_2 \in Objects :
         Finish("remove", <<object_1, object_2>>,
                remove_related_content(DB, object_1, object_2))

GetCall ==
    /\ last = Nil
    /\ \E object \in Objects, related_types \in RelatedTypeArgs,
          grouped \in BOOLEAN, limit \in Limits, verbose \in BOOLEAN :
         Finish("get", <<object, related_types, grouped, limit, verbose>>,
                get_related_content(
                    DB, object, related_types, grouped, limit, None, verbose))

GetSametypeCall ==
    /\ last = Nil
    /\ \E object \in Objects, related_types \in RelatedTypeArgs :
         Finish("get_sametype", <<object, related_types>>,
                get_related_content_sametype(DB, object, related_types, None))

(* the caller takes the outcome; the next call starts from there *)
Return ==
    /\ last # Nil
    /\ last' = Nil
    /\ UNCHANGED <<tables, sequence, settings, modules>>

Next == SaveCall \/ AddCall \/ RemoveCall \/ GetCall \/ GetSametypeCall \/ Return

Spec == Init /\ [][Next]_vars

(* ------------------------------------------------------------------ *)
(* Start-up: a project with any of the settings, from before the       *)
(* import of the app's modules                                         *)
(* ------------------------------------------------------------------ *)
StartupInit ==
    /\ tables = [cls \in Classes |-> {}]
    /\ sequence = [cls \in Classes |-> 0]
    /\ last = Nil
    /\ settings \in ProjectSettings
    /\ modules = NotImported

(* import django_velcro.models: the module's body ends in _startup() *)
ImportModels ==
    /\ ~modules.models.imported
    /\ modules' = AfterModels(modules, models_startup(app_settings(settings)))
    /\ UNCHANGED <<tables, sequence, last, settings>>

(* import django_velcro.admin, which looks the generated models up:    *)
(* the module's body ends in _startup()                                *)
ImportAdmin ==
    /\ modules.models.imported
    /\ modules.admin.state = "unimported"
    /\ \E items \in ItemOrders :
         modules' = AfterAdmin(modules,
                        admin_py(modules.registry, settings_py(settings),
                                 modules.models.globals, items))
    /\ UNCHANGED <<tables, sequence, last, settings>>

(* the model classes and their instances get_velcro_type is asked of *)
ClassesAndInstances == Models \cup [ct : Models, id : 1..MaxId]

GetVelcroTypeCall ==
    /\ last = Nil
    /\ modules.models.imported
    /\ \E object \in ClassesAndInstances :
         last' = [op |-> "get_velcro_type", args |-> <<object>>, exc |-> None,
                  value |-> VelcroTypeOfClass(settings.VELCRO_METADATA,
                                              ObjectClass(object)),
                  pre |-> tables]
    /\ UNCHANGED <<tables, sequence, settings, modules>>

StartupNext == ImportModels \/ ImportAdmin \/ GetVelcroTypeCall \/ Return

Startup == StartupInit /\ [][StartupNext]_vars

(* ------------------------------------------------------------------ *)
(* Properties                                                          *)
(* ------------------------------------------------------------------ *)
ClassOf(a, b) == get_relationship_class(get_velcro_type(a), get_velcro_type(b))

(* the row joins the objects a and b, whichever is its first endpoint *)
Joins(cls, row, a, b) ==
    {ContentObject(cls, row, 1), ContentObject(cls, row, 2)} = {a, b}

RowsJoining(tbls, a, b) ==
    IF ClassOf(a, b) = None THEN {}
    ELSE {row \in tbls[ClassOf(a, b)] : Joins(ClassOf(a, b), row, a, b)}

RelatedIn(tbls, a, b) == RowsJoining(tbls, a, b) # {}

ReflexiveClasses == {cls \in Classes : IsReflexive(RelationshipOfClass(cls))}

(* the list a grouped result holds under a key *)
ListOf(related_dict, key) ==
    IF \E i \in DOMAIN related_dict : related_dict[i][1] = key
    THEN related_dict[CHOOSE i \in DOMAIN related_dict : related_dict[i][1] = key][2]
    ELSE <<>>

(* C1: add_related_content(a, b) is a get-or-create: it returns             *)
(* (relationship, created), created being True exactly when no record       *)
(* joined a and b before the call; an existing record is returned as it is, *)
(* with created False and the tables unchanged.                             *)
C1_GetOrCreate ==
    (/\ last.op = "add"
     /\ last.args[1] # last.args[2]
     /\ ClassOf(last.args[1], last.args[2]) # None)
    => /\ last.exc = None
       /\ last.value[2] = ~RelatedIn(last.pre, last.args[1], last.args[2])
       /\ last.value[1] \in RowsJoining(tables, last.args[1], last.args[2])
       /\ RelatedIn(last.pre, last.args[1], last.args[2])
            => /\ tables = last.pre
               /\ last.value[1] \in RowsJoining(last.pre, last.args[1], last.args[2])

(* C2: creating is symmetric: for distinct a and b not yet related,         *)
(* add_related_content(a, b) followed by add_related_content(b, a) creates  *)
(* one record in total, and the second call returns created=False and the   *)
(* record the first call made.                                              *)
C2_AddThenAddSwapped(db, a, b, first) ==
    /\ first.exc = None
    /\ first.value[2] = TRUE
    /\ add_related_content(first.db, b, a) =
            Returned(first.db, <<first.value[1], FALSE>>)
    /\ Cardinality(first.db.tables[ClassOf(a, b)])
            = Cardinality(db.tables[ClassOf(a, b)]) + 1

C2_SymmetricCreate ==
    \A a, b \in Objects :
        (/\ a # b
         /\ ClassOf(a, b) # None
         /\ ~RelatedIn(tables, a, b)
         /\ RowsInserted(DB) < MaxRows)
        => C2_AddThenAddSwapped(DB, a, b, add_related_content(DB, a, b))

(* C3: no two stored records of one relationship model join the same pair   *)
(* of objects (for a reflexive model, in either order of the endpoints), and *)
(* a save() of a record whose endpoints match a stored record updates that  *)
(* record under its primary key and inserts nothing.                        *)
C3_SavedOver(cls, self, saved, matching) ==
    matching # {}
    => /\ last.exc = None
       /\ saved["id"] \in {row["id"] : row \in matching}
       /\ {row["id"] : row \in tables[cls]} = {row["id"] : row \in last.pre[cls]}
       /\ saved \in tables[cls]

C3_NoDuplicatePairs ==
    /\ \A cls \in Classes : \A r1, r2 \in tables[cls] :
          Joins(cls, r1, ContentObject(cls, r2, 1), ContentObject(cls, r2, 2))
              => r1 = r2
    /\ last.op = "save"
          => C3_SavedOver(last.args[1], last.args[2], last.value,
                 { row \in last.pre[last.args[1]] :
                     Joins(last.args[1], row,
                           ContentObject(last.args[1], last.args[2], 1),
                           ContentObject(last.args[1], last.args[2], 2)) })

(* a reflexive record was saved with its endpoints in the other order than  *)
(* the stored record of the pair, and took that record's place              *)
C3_Witness ==
    /\ last.op = "save"
    /\ last.args[1] \in ReflexiveClasses
    /\ last.exc = None
    /\ \E row \in last.pre[last.args[1]] :
          /\ ContentObject(last.args[1], row, 1)
                = ContentObject(last.args[1], last.args[2], 2)
          /\ ContentObject(last.args[1], row, 2)
                = ContentObject(last.args[1], last.args[2], 1)
          /\ ContentObject(last.args[1], row, 1) # ContentObject(last.args[1], row, 2)
          /\ last.value["id"] = row["id"]
          /\ last.args[2]["id"] = NoPk

(* C4: a reflexive record whose two endpoints are the same object is never  *)
(* stored: save() on such a record writes nothing.                          *)
C4_NoSelfRelation ==
    /\ \A cls \in ReflexiveClasses : \A row \in tables[cls] :
          ContentObject(cls, row, 1) # ContentObject(cls, row, 2)
    /\ (/\ last.op = "save"
        /\ last.args[1] \in ReflexiveClasses
        /\ ContentObject(last.args[1], last.args[2], 1)
              = ContentObject(last.args[1], last.args[2], 2))
       => tables = last.pre

(* save() was called on a reflexive record joining an object to itself,     *)
(* with other records stored                                                *)
C4_Witness ==
    /\ last.op = "save"
    /\ last.args[1] \in ReflexiveClasses
    /\ ContentObject(last.args[1], last.args[2], 1)
          = ContentObject(last.args[1], last.args[2], 2)
    /\ last.pre[last.args[1]] # {}
    /\ last.args[2]["id"] # NoPk

(* C5: add_related_content(x, x) and remove_related_content(x, x), for x of *)
(* a velcro type with a reflexive relationship, raise ValueError and create *)
(* or delete no record.                                                     *)
C5_SelfRaisesValueError ==
    (/\ last.op \in {"add", "remove"}
     /\ last.args[1] = last.args[2]
     /\ ClassOf(last.args[1], last.args[2]) \in ReflexiveClasses)
    => /\ last.exc = "ValueError"
       /\ tables = last.pre

(* remove_related_content(x, x) was called with records stored *)
C5_Witness ==
    /\ last.op = "remove"
    /\ last.args[1] = last.args[2]
    /\ ClassOf(last.args[1], last.args[2]) \in ReflexiveClasses
    /\ last.exc = "ValueError"
    /\ \E row \in last.pre[ClassOf(last.args[1], last.args[2])] :
          ContentObject(ClassOf(last.args[1], last.args[2]), row, 1) = last.args[1]

(* the flat list of everything get_related_content(object) returns *)
AllRelated(db, object) ==
    get_related_content(db, object, <<>>, FALSE, NoLimit, None, FALSE)

IsAbsentFrom(object, fetched) ==
    /\ fetched.exc = None
    /\ object \notin Range(fetched.value)

(* C6: remove_related_content(a, b), called when a and b are related,       *)
(* deletes their relationship whichever of the two was given first at       *)
(* creation: afterwards neither is in the related content of the other,     *)
(* and every record joining another pair is unchanged.                      *)
C6_RemoveDeletes ==
    (/\ last.op = "remove"
     /\ RelatedIn(last.pre, last.args[1], last.args[2]))
    => /\ last.exc = None
       /\ \A cls \in Classes :
             tables[cls] = last.pre[cls]
                 \ RowsJoining(last.pre, last.args[1], last.args[2])
       /\ IsAbsentFrom(last.args[2], AllRelated(DB, last.args[1]))
       /\ IsAbsentFrom(last.args[1], AllRelated(DB, last.args[2]))

(* C7: fetching is symmetric: in every state, for objects a and b of velcro *)
(* types Ta and Tb, b is in get_related_content(a)[Tb] if and only if a is  *)
(* in get_related_content(b)[Ta].                                           *)
C7_Mutual(a, b, of_a, of_b) ==
    /\ of_a.exc = None
    /\ of_b.exc = None
    /\ b \in Range(ListOf(of_a.value, get_velcro_type(b)))
          <=> a \in Range(ListOf(of_b.value, get_velcro_type(a)))

C7_SymmetricFetch ==
    \A a, b \in Objects :
        ClassOf(a, b) # None
        => C7_Mutual(a, b,
              get_related_content(DB, a, <<>>, TRUE, NoLimit, None, FALSE),
              get_related_content(DB, b, <<>>, TRUE, NoLimit, None, FALSE))

(* C8: get_related_content(object) with no related types and no limit       *)
(* returns a dictionary whose keys are exactly the related types of the     *)
(* object's velcro type, the value of each key being the list of exactly    *)
(* the objects of that type that have a relationship record with the object. *)
C8_ListsExactly(object, related_dict) ==
    \A i \in DOMAIN related_dict :
        /\ Range(related_dict[i][2]) =
              { o \in ObjectsOfType(related_dict[i][1]) : RelatedIn(tables, object, o) }
        /\ Len(related_dict[i][2]) = Cardinality(Range(related_dict[i][2]))

C8_GroupedResult ==
    (/\ last.op = "get"
     /\ last.args[2] = <<>>
     /\ last.args[3]
     /\ last.args[4] = NoLimit
     /\ ~last.args[5])
    => /\ last.exc = None
       /\ [i \in DOMAIN last.value |-> last.value[i][1]]
             = get_related_types(get_velcro_type(last.args[1]))
       /\ C8_ListsExactly(last.args[1], last.value)

(* C9: get_related_content(object, ..., limit=n) returns at most n objects  *)
(* per related type, each of them also returned by the same call without a  *)
(* limit.                                                                   *)
C9_Within(limit, limited, unlimited) ==
    /\ unlimited.exc = None
    /\ \A i \in DOMAIN limited :
          /\ Len(limited[i][2]) <= limit
          /\ Range(limited[i][2]) \subseteq Range(ListOf(unlimited.value, limited[i][1]))

C9_Limit ==
    (/\ last.op = "get"
     /\ last.args[3]
     /\ last.args[4] # NoLimit)
    => /\ last.exc = None
       /\ C9_Within(last.args[4], last.value,
             get_related_content(DB, last.args[1], last.args[2], TRUE, NoLimit,
                                 None, last.args[5]))

(* C10: get_related_content(object, ..., grouped=False) returns the flat    *)
(* list that concatenates the per-type lists of the grouped result, in the  *)
(* order of the related type names sorted case-insensitively.               *)
C10_Concatenates(flat, grouped) ==
    /\ grouped.exc = None
    /\ \A i, j \in DOMAIN grouped.value :
          i < j => KeyRank(grouped.value[i][1]) < KeyRank(grouped.value[j][1])
    /\ flat = FlatList(grouped.value)

C10_FlatList ==
    (/\ last.op = "get"
     /\ ~last.args[3])
    => /\ last.exc = None
       /\ C10_Concatenates(last.value,
             get_related_content(DB, last.args[1], last.args[2], TRUE, last.args[4],
                                 None, last.args[5]))

(* the velcro types get_related_content_sametype goes through: the valid    *)
(* ones of those given, or every related type, the object's own type apart  *)
C11_Intermediaries(object, related_types) ==
    Range(get_or_validate_related_types(get_velcro_type(object), related_types))
        \ {get_velcro_type(object)}

C11_Reached(object, related_types) ==
    { y \in ObjectsOfType(get_velcro_type(object)) :
        /\ y # object
        /\ \E rt \in C11_Intermediaries(object, related_types) :
              \E r \in ObjectsOfType(rt) :
                 /\ RelatedIn(tables, object, r)
                 /\ RelatedIn(tables, r, y) }

(* C11: get_related_content_sametype(object) returns, without duplicates    *)
(* and without the object itself, exactly the objects of the object's own   *)
(* velcro type reached through mutually-related content of the other        *)
(* related types: y is returned if and only if y differs from the object    *)
(* and some r of another related type is related to both the object and y;  *)
(* given related types restrict the intermediaries to those types.          *)
C11_SametypeViaOthers ==
    last.op = "get_sametype"
    => /\ last.exc = None
       /\ Len(last.value) = Cardinality(Range(last.value))
       /\ Range(last.value) = C11_Reached(last.args[1], last.args[2])

(* the name the model of a relationship between these velcro types is to have *)
C12_Name(types) ==
    CASE types = {"data"} -> "DataDataRelationship"
      [] types = {"publication"} -> "PublicationPublicationRelationship"
      [] types = {"data", "publication"} -> "DataPublicationRelationship"

C12_NumberedFields ==
    {"content_type_1", "object_pk_1", "content_type_2", "object_pk_2"}

C12_PrefixedFields ==
    {"data_content_type", "data_object_pk",
     "publication_content_type", "publication_object_pk"}

C12_ModelOf(klass, types) ==
    /\ klass.name = C12_Name(types)
    /\ Cardinality(types) = 1
          => /\ C12_NumberedFields \subseteq klass.fields
             /\ C12_PrefixedFields \cap klass.fields = {}
    /\ Cardinality(types) = 2
          => /\ C12_PrefixedFields \subseteq klass.fields
             /\ C12_NumberedFields \cap klass.fields = {}

(* C12: once models.py is imported, every tuple of VELCRO_RELATIONSHIPS has  *)
(* exactly one generated model, named '<A><B>Relationship' with A and B the  *)
(* tuple's velcro types in sorted order, capitalized, so that (a, b) and     *)
(* (b, a) give the same name; the model of a tuple (a, a) has the fields     *)
(* content_type_1/object_pk_1 and content_type_2/object_pk_2 and no          *)
(* type-prefixed field.                                                      *)
C12_ModelsGenerated ==
    modules.models.imported
    => /\ DOMAIN modules.models.globals =
             { C12_Name(Range(settings.VELCRO_RELATIONSHIPS[i])) :
                 i \in DOMAIN settings.VELCRO_RELATIONSHIPS }
       /\ Cardinality(DOMAIN modules.models.globals)
             = Len(settings.VELCRO_RELATIONSHIPS)
       /\ \A i \in DOMAIN settings.VELCRO_RELATIONSHIPS :
             C12_ModelOf(
                modules.models.globals[
                    C12_Name(Range(settings.VELCRO_RELATIONSHIPS[i]))],
                Range(settings.VELCRO_RELATIONSHIPS[i]))

(* models.py was imported with a tuple given against the sorted order and a  *)
(* reflexive tuple                                                           *)
C12_Witness ==
    /\ modules.models.imported
    /\ settings.VELCRO_RELATIONSHIPS = << <<"publication", "data">>, <<"data", "data">> >>
    /\ DOMAIN modules.models.globals
          = {"DataPublicationRelationship", "DataDataRelationship"}

(* the velcro types that list the model *)
C13_TypesOf(model) ==
    { t \in VelcroTypes : model \in Range(settings.VELCRO_METADATA[t]) }

C13_Updated(model, velcro_type, model_admin) ==
    /\ model_admin.inlines =
          IF settings.VELCRO_INLINES
          THEN ThirdPartyAdmin(model).inlines
                  \o get_relationship_inlines(settings, velcro_type)
          ELSE ThirdPartyAdmin(model).inlines
    /\ ("GenericAdminModelAdmin" \in Range(model_admin.bases))
          <=> settings.VELCRO_GENERICADMIN

(* C13: once admin.py is imported, every model that VELCRO_METADATA lists    *)
(* (under one velcro type) is registered, once, with an admin class whose    *)
(* inlines are the original admin's inlines followed by the relationship     *)
(* inlines of its velcro type when VELCRO_INLINES is true and the original   *)
(* inlines alone when it is false, and that inherits from                    *)
(* GenericAdminModelAdmin if and only if VELCRO_GENERICADMIN is true.        *)
C13_Reregistered ==
    modules.admin.state # "unimported"
    => \A model \in Models : \A t \in C13_TypesOf(model) :
          C13_TypesOf(model) = {t}
          => /\ model \in DOMAIN modules.registry
             /\ C13_Updated(model, t, modules.registry[model])

(* the velcro types that list the class by its app_label and model entries *)
C14_TypesListing(object_class) ==
    { t \in VelcroTypes :
        \E i \in DOMAIN settings.VELCRO_METADATA[t] :
            /\ settings.VELCRO_METADATA[t][i].app_label = object_class.app_label
            /\ settings.VELCRO_METADATA[t][i].model = object_class.model }

C14_Answers(value, listing) ==
    IF listing = {} THEN value = None
    ELSE /\ value \in listing
         /\ \A t \in listing : TypeRank(value) <= TypeRank(t)

(* C14: get_velcro_type, asked of a model class or of an instance of it,     *)
(* returns the velcro type VELCRO_METADATA lists the model under (by its     *)
(* 'app_label' and 'model' entries), None for a model listed under no velcro *)
(* type, and the alphabetically first type for a model listed under several. *)
C14_VelcroType ==
    last.op = "get_velcro_type"
    => /\ last.exc = None
       /\ C14_Answers(last.value, C14_TypesListing(ObjectClass(last.args[1])))

====
